---- MODULE Spec2Model ----
(***************************************************************************)
(* Verification model of logseq/stay-liquid (tab bar overlay plugin).      *)
(*                                                                         *)
(* Three state machines share this module:                                 *)
(*   SpecWeb     - src/src/components/tabs/web.ts: ImageManager (remote    *)
(*                 image cache, in-flight promise registry) and TabsBarWeb *)
(*                 (per-tab loading states).                               *)
(*   SpecNative  - src/unnamed/part_000: TabsBarOverlay.ImageUtils         *)
(*                 .loadImageFromUrl (iOS remote image loader).            *)
(*   SpecOverlay - src/ios/Plugin/TabsBarPlugin.swift configure/select and *)
(*                 src/unnamed/part_000 TabsBarOverlay (selection state,   *)
(*                 long-press handling).                                   *)
(* The other specifications are these machines seen through other calls:   *)
(*   SpecWebTtl, SpecSweep, SpecWebLive - the web plugin with the clock    *)
(*                 running, and with every fetch answered;                 *)
(*   SpecIcons, SpecBadges, SpecBridge - the overlay's icons, badges and   *)
(*                 the calls show and hide;                                *)
(*   SpecSources, SpecRender - the classification of an icon source and    *)
(*                 the styling of a loaded image.                          *)
(***************************************************************************)
EXTENDS Integers, Sequences, FiniteSets, TLC

(***************************************************************************)
(* Bounds of the model.                                                    *)
(***************************************************************************)
\* configure() calls explored on the web plugin
MaxConfigs == 2
\* clearImageCache() calls explored on the web plugin
MaxClears == 1
\* clock advances explored
MaxTicks == 1
\* preloadItemImage() promise chains explored on the web plugin
MaxResolutions == 2
\* loadImageFromUrl() calls explored on the native image loader
MaxRequests == 3
\* longest item list given to the native configure()
MaxItems == 2
\* longest icon source, in parts, given to loadImage() and processImageIcon()
MaxSourceParts == 5

(***************************************************************************)
(* Inputs.                                                                 *)
(***************************************************************************)
TabIds == {"a", "b"}
\* the keys of the per-tab maps: any string a caller gives as id, "" included
TabKeys == TabIds \cup {""}

\* An icon source (imageIcon.image) is written as the sequence of its parts,
\* so that the pattern match and the URL parse of the validators are computed
\* on what the string holds: "https://x/avatar.png" is <<"https:", "//x/avatar.png">>
HttpsUrl == <<"https:", "//x/avatar.png">>
HttpUrl == <<"http:", "//x/logo.png">>
InlineUri == <<"data:", "image/", "png", ";base64,", "AAAA">>
BadSource == <<"ftp:", "//x/icon.png">>
\* stands for an item without imageIcon
NoIcon == <<"<no imageIcon>">>

\* the parts the icon sources given to loadImage / processImageIcon are made of
SourceParts ==
    {"data:", "DATA:", "image/", "png", "PNG", "gif", ";base64,",
     "https:", "http:", "ftp:", "//x/a.png"}

\* every icon source of at most MaxSourceParts parts, the empty string included
RawSources == UNION {[1..n -> SourceParts] : n \in 0..MaxSourceParts}

Urls == {HttpsUrl, HttpUrl}
IconSources == Urls \cup {InlineUri, BadSource}

\* the item lists of one or two items with ids among tabs and imageIcon.image
\* among srcs (NoIcon: the item has no imageIcon)
ItemLists(tabs, srcs) ==
    LET all == [id : tabs, src : srcs]
    IN {<<x>> : x \in all} \cup {<<x, y>> : x \in all, y \in all}

\* item lists given to configure() when the concurrency of resolutions is explored
WebItemLists ==
    ItemLists(TabIds, {HttpsUrl, BadSource, NoIcon})
        \cup {<<>>, <<[id |-> "", src |-> HttpsUrl]>>}

\* item lists given to configure() when the expiry of cache entries is explored
TtlItemLists == {<<[id |-> "a", src |-> u]>> : u \in Urls}

VARIABLES
    \* ---- web.ts: ImageManager
    now,                \* Date.now()
    cache,              \* ImageManager.cache: url -> [ts, by]; by = 0 is "no entry",
                        \*   otherwise the fetch whose blob the entry holds
    loadingPromises,    \* ImageManager.loadingPromises: url -> fetch id (0 = none)
    fetches,            \* every fetchAndCacheImage() call issued so far
    \* ---- web.ts: TabsBarWeb
    loadingStates,      \* TabsBarWeb.loadingStates: tab id -> state ("none" = absent)
    imageLoadPromises,  \* TabsBarWeb.imageLoadPromises: tab id -> resolution (0 = none)
    resolutions,        \* every preloadItemImage() promise chain started so far
    configured,         \* ids the most recent configure() call gave an imageIcon
    configs,            \* number of configure() calls so far (the configuration generation)
    configureCalls,     \* every configure() call so far: the promises it awaits and its state
    clears,             \* number of clearImageCache() calls so far
    ticks               \* number of clock advances so far

webVars == <<now, cache, loadingPromises, fetches, loadingStates, imageLoadPromises,
             resolutions, configured, configs, configureCalls, clears, ticks>>

VARIABLES
    \* ---- part_000: TabsBarOverlay.ImageUtils
    imageCache,         \* ImageUtils.imageCache: url -> data task whose image is cached (0 = none)
    urlLoadingStates,   \* ImageUtils.loadingStates: url -> "absent" | "true" | "false"
    tasks,              \* every URLSession data task started so far
    requests            \* every loadImageFromUrl(url, completion) call made so far

nativeVars == <<imageCache, urlLoadingStates, tasks, requests>>

VARIABLES
    \* ---- TabsBarPlugin.swift: TabsBarPlugin
    overlayVC,          \* TabsBarPlugin.overlayVC: TRUE once the overlay exists
    pending,            \* the block a plugin call gave to DispatchQueue.main.async (or NoBlock)
    call,               \* the most recent plugin call and how it was completed
    crashed,            \* TRUE once the process has trapped
    \* ---- part_000: TabsBarOverlay
    items,              \* TabsBarOverlay.items: the ids of the tabs, in order
    selectedItem,       \* tabBar.selectedItem: index of the highlighted tab (0 = nil)
    lastSelectedIndex,  \* TabsBarOverlay.lastSelectedIndex (0 = nil)
    suppressNextSelectionEvent,
    gesture,            \* the touch on the tab bar: its phase and what it started from
    events              \* the onInteraction events emitted since the last press-down

overlayVars == <<overlayVC, pending, call, crashed, items, selectedItem, lastSelectedIndex,
                 suppressNextSelectionEvent, gesture, events>>

VARIABLES
    \* ---- part_000: TabsBarOverlay, the icons of the tab bar
    barItems,           \* tabBar.items: for each tab the icon fields of its model and the
                        \*   image its UITabBarItem shows
    iconLoads,          \* the loadImageIcon() calls whose completion has not yet run
    badgeValues,        \* tabBar.items: for each tab what the badge of its UITabBarItem shows
    \* ---- TabsBarPlugin.swift, part_000: the view of the overlay
    view                \* overlay.view: isHidden and isUserInteractionEnabled

iconVars == <<barItems, iconLoads, badgeValues, view>>

VARIABLES
    \* ---- web.ts: ImageManager.loadImage, part_000: ImageUtils.processImageIcon
    probe               \* the one source given to either on its own, and what became of it

VARIABLES
    \* ---- part_000: ImageUtils.applyImageIconStyling, addEnhancedRingToImage
    rendered            \* the images rendered so far, each with the arguments it was made from

vars == <<webVars, nativeVars, overlayVars, iconVars, probe, rendered>>

\* what a step of the web plugin leaves alone
notWeb == <<nativeVars, overlayVars, iconVars, probe, rendered>>

\* what a step of the native image loader leaves alone
notNative == <<webVars, overlayVars, iconVars, probe, rendered>>

\* what a step of the native plugin and its overlay leaves alone
notOverlay == <<webVars, nativeVars, probe, rendered>>

(***************************************************************************)
(* web.ts: ImageValidator                                                  *)
(***************************************************************************)
SUPPORTED_FORMATS == {"image/png", "image/jpeg", "image/jpg", "image/svg+xml", "image/webp"}

MAX_FILE_SIZE == 5 * 1024 * 1024

CACHE_DURATION == 24 * 60 * 60 * 1000

\* String.prototype.toLowerCase on the content types the model feeds in
toLowerCase(s) ==
    CASE s = "IMAGE/PNG" -> "image/png"
      [] s = "Image/WebP" -> "image/webp"
      [] OTHER -> s

isValidImageFormat(contentType) == toLowerCase(contentType) \in SUPPORTED_FORMATS

validateImageSize(size) == size <= MAX_FILE_SIZE

\* a part of a source with its letters in lower case
lowerPart(part) ==
    CASE part = "DATA:" -> "data:"
      [] part = "PNG" -> "png"
      [] OTHER -> part

\* the regular expression /^data:image\/(png|jpeg|jpg|svg\+xml|webp);base64,/i
\* of isValidBase64DataUri, tested on src: the flag i makes the whole match
\* ignore case
base64Pattern(src) ==
    /\ Len(src) >= 4
    /\ lowerPart(src[1]) = "data:"
    /\ lowerPart(src[2]) = "image/"
    /\ lowerPart(src[3]) \in {"png", "jpeg", "jpg", "svg+xml", "webp"}
    /\ lowerPart(src[4]) = ";base64,"

\* isValidBase64DataUri as it would be if the match told upper from lower case
isValidBase64DataUriExact(src) ==
    /\ Len(src) >= 4
    /\ src[1] = "data:"
    /\ src[2] = "image/"
    /\ src[3] \in {"png", "jpeg", "jpg", "svg+xml", "webp"}
    /\ src[4] = ";base64,"

isValidBase64DataUri(src) == base64Pattern(src)

\* the schemes of the sources, which URL parsers read up to the first colon
Schemes == {"data:", "https:", "http:", "ftp:"}

\* new URL(url).protocol, or "TypeError" when the constructor throws: without
\* a base a URL needs a scheme, and one of http, https or ftp needs a host
URL_protocol(src) ==
    IF Len(src) = 0 \/ lowerPart(src[1]) \notin Schemes THEN "TypeError"
    ELSE IF lowerPart(src[1]) \in {"https:", "http:", "ftp:"} /\ Len(src) < 2 THEN "TypeError"
    ELSE lowerPart(src[1])

\* new URL(url) parses and protocol is http: or https:
isValidHttpUrl(src) == URL_protocol(src) = "http:" \/ URL_protocol(src) = "https:"

\* what the network answers to one GET; decodes says whether the bytes of the
\* body are an image of the announced type
Responses ==
    {[net |-> "ok", status |-> 200, ctype |-> "image/png", size |-> MAX_FILE_SIZE, decodes |-> TRUE],
     [net |-> "ok", status |-> 200, ctype |-> "IMAGE/PNG", size |-> 1, decodes |-> TRUE],
     [net |-> "ok", status |-> 404, ctype |-> "image/png", size |-> 1, decodes |-> TRUE],
     [net |-> "ok", status |-> 200, ctype |-> "text/html", size |-> 1, decodes |-> TRUE],
     [net |-> "ok", status |-> 200, ctype |-> "", size |-> 1, decodes |-> TRUE],
     [net |-> "ok", status |-> 200, ctype |-> "image/png", size |-> MAX_FILE_SIZE + 1, decodes |-> TRUE],
     [net |-> "ok", status |-> 200, ctype |-> "image/png", size |-> 1, decodes |-> FALSE],
     [net |-> "error", status |-> 0, ctype |-> "", size |-> 0, decodes |-> FALSE]}

\* what is wrong with a response ("none": it carries a good image of a
\* supported type and size)
FailureKind(resp) ==
    CASE resp.net # "ok" -> "network"
      [] resp.status < 200 \/ resp.status > 299 -> "http"
      [] toLowerCase(resp.ctype) \notin SUPPORTED_FORMATS -> "mime"
      [] resp.size > MAX_FILE_SIZE -> "oversized"
      [] ~resp.decodes -> "undecodable"
      [] OTHER -> "none"

\* response.ok: status in the range 200-299
responseOk(resp) == resp.status >= 200 /\ resp.status <= 299

\* the checks of fetchAndCacheImage between the GET and cache.set
fetchSucceeds(resp) ==
    /\ resp.net = "ok"
    /\ responseOk(resp)
    /\ isValidImageFormat(resp.ctype)
    /\ validateImageSize(resp.size)

(***************************************************************************)
(* web.ts: ImageManager                                                    *)
(***************************************************************************)
NoEntry == [ts |-> 0, by |-> 0]

\* cleanupCache() as it would be if it removed nothing
cleanupCacheNothing(c, t) == c

\* ImageManager.cleanupCache
cleanupCache(c, t) ==
    [u \in Urls |-> IF c[u].by # 0 /\ t - c[u].ts > CACHE_DURATION THEN NoEntry ELSE c[u]]

\* a cache as it would be if entries stopped being fresh a millisecond early
cacheFreshEarly(c, url, t) == c[url].by # 0 /\ (t - c[url].ts) < CACHE_DURATION - 1

\* the cache check of loadRemoteImage
cacheFresh(c, url, t) == c[url].by # 0 /\ (t - c[url].ts) < CACHE_DURATION

\* ImageManager.loadRemoteImage up to its first await, on the state s
\* (s.lp = loadingPromises, s.f = fetches); yields the new state, the role the
\* caller plays and the fetch it awaits
loadRemoteImage(s, url) ==
    IF s.lp[url] # 0
    THEN [s |-> s, role |-> "joiner", fetch |-> s.lp[url]]
    ELSE IF cacheFresh(cache, url, now)
    THEN [s |-> s, role |-> "hit", fetch |-> 0]
    ELSE LET f == Len(s.f) + 1
         IN [s |-> [s EXCEPT !.f = Append(s.f, [url |-> url, st |-> "inflight", cleared |-> FALSE,
                                                  kind |-> ""]),
                             !.lp = [s.lp EXCEPT ![url] = f]],
             role |-> "owner", fetch |-> f]

\* the branch ImageManager.loadImage takes for the source src
loadImageBranch(src) ==
    IF isValidBase64DataUri(src) THEN "inline"
    ELSE IF isValidHttpUrl(src) THEN "remote"
    ELSE "invalid"

\* ImageManager.loadImage up to its first await
loadImage(s, src) ==
    CASE loadImageBranch(src) = "inline" -> [s |-> s, role |-> "inline", fetch |-> 0]
      [] loadImageBranch(src) = "remote" -> loadRemoteImage(s, src)
      [] OTHER -> [s |-> s, role |-> "invalid", fetch |-> 0]

\* no source has been given to loadImage() or processImageIcon() on its own
NoProbe == [platform |-> "none", raw |-> <<>>, kind |-> "none", key |-> <<>>]

\* ImageManager.loadImage called with the source raw: the branch it takes and,
\* for a URL, the string it hands to loadRemoteImage as the key of the cache
LoadImage ==
    /\ probe = NoProbe
    /\ \E raw \in RawSources :
          probe' = [platform |-> "web", raw |-> raw, kind |-> loadImageBranch(raw),
                    key |-> IF loadImageBranch(raw) = "remote" THEN raw ELSE <<>>]
    /\ UNCHANGED <<webVars, nativeVars, overlayVars, iconVars, rendered>>

(***************************************************************************)
(* web.ts: TabsBarWeb                                                      *)
(***************************************************************************)
\* TabsBarWeb.preloadItemImage up to the return of its promise
preloadItemImage(s, item, gen) ==
    IF item.src = NoIcon THEN s
    ELSE IF s.ilp[item.id] # 0 THEN s
    ELSE LET l == loadImage(s, item.src)
             r == Len(s.r) + 1
         IN [l.s EXCEPT !.ls = [s.ls EXCEPT ![item.id] = "loading"],
                        !.r = Append(s.r, [tab |-> item.id, src |-> item.src, gen |-> gen,
                                           role |-> l.role, fetch |-> l.fetch,
                                           phase |-> "waiting", at |-> now]),
                        !.ilp = [s.ilp EXCEPT ![item.id] = r]]

\* validateAndPreloadImages as it would be if a source that cannot be loaded
\* ended the walk over the items
RECURSIVE validateAndPreloadImagesAborting(_, _, _, _)
validateAndPreloadImagesAborting(s, tabItems, i, gen) ==
    IF i > Len(tabItems) THEN s
    ELSE IF tabItems[i].src = BadSource THEN preloadItemImage(s, tabItems[i], gen)
    ELSE validateAndPreloadImagesAborting(preloadItemImage(s, tabItems[i], gen),
                                          tabItems, i + 1, gen)

\* TabsBarWeb.validateAndPreloadImages: preloadItemImage over the items in order
RECURSIVE validateAndPreloadImages(_, _, _, _)
validateAndPreloadImages(s, tabItems, i, gen) ==
    IF i > Len(tabItems) THEN s
    ELSE validateAndPreloadImages(preloadItemImage(s, tabItems[i], gen), tabItems, i + 1, gen)

\* TabsBarWeb.configure up to its await of Promise.allSettled
Configure(lists) ==
    \E tabItems \in lists :
        /\ configs < MaxConfigs
        /\ LET s0 == [lp |-> loadingPromises, f |-> fetches, ls |-> loadingStates,
                      ilp |-> imageLoadPromises, r |-> resolutions]
               s1 == validateAndPreloadImages(s0, tabItems, 1, configs + 1)
           IN /\ loadingPromises' = s1.lp
              /\ fetches' = s1.f
              /\ loadingStates' = s1.ls
              /\ imageLoadPromises' = s1.ilp
              /\ resolutions' = s1.r
              /\ Len(s1.r) <= MaxResolutions
        /\ configured' = {tabItems[i].id : i \in {j \in DOMAIN tabItems : tabItems[j].src # NoIcon}}
        /\ configs' = configs + 1
        /\ configureCalls' = Append(configureCalls,
               [empty |-> Len(tabItems) = 0,
                emptyId |-> \E i \in DOMAIN tabItems : tabItems[i].id = "",
                awaits |-> {imageLoadPromises'[tabItems[i].id] :
                               i \in {j \in DOMAIN tabItems : tabItems[j].src # NoIcon}},
                st |-> "pending"])
        /\ UNCHANGED <<now, cache, clears, ticks>>
        /\ UNCHANGED notWeb

\* TabsBarWeb.configure after its await: Promise.allSettled has settled, the
\* call logs the configuration and its promise resolves
ConfigureReturn ==
    \E k \in DOMAIN configureCalls :
        /\ configureCalls[k].st = "pending"
        /\ \A r \in configureCalls[k].awaits : resolutions[r].phase = "done"
        /\ configureCalls' = [configureCalls EXCEPT ![k].st = "resolved"]
        /\ UNCHANGED <<now, cache, loadingPromises, fetches, loadingStates, imageLoadPromises,
                       resolutions, configured, configs, clears, ticks>>
        /\ UNCHANGED notWeb

\* loadRemoteImage after its await: loadingPromises.delete(url) in try and in catch
OwnerResume ==
    \E r \in DOMAIN resolutions :
        /\ resolutions[r].role = "owner"
        /\ resolutions[r].phase = "waiting"
        /\ fetches[resolutions[r].fetch].st # "inflight"
        /\ loadingPromises' = [loadingPromises EXCEPT ![resolutions[r].src] = 0]
        /\ resolutions' = [resolutions EXCEPT ![r].phase = "resumed"]
        /\ UNCHANGED <<now, cache, fetches, loadingStates, imageLoadPromises,
                       configured, configs, configureCalls, clears, ticks>>
        /\ UNCHANGED notWeb

\* Settled(r) as it would be if a request that joined the fetch of another were
\* never answered
SettledOwnerOnly(r) ==
    CASE resolutions[r].role = "owner" -> resolutions[r].phase = "resumed"
      [] resolutions[r].role = "joiner" -> FALSE
      [] OTHER -> resolutions[r].phase = "waiting"

\* whether the promise loadImageIcon returned to resolution r has settled
Settled(r) ==
    CASE resolutions[r].role = "owner" -> resolutions[r].phase = "resumed"
      [] resolutions[r].role = "joiner" ->
            resolutions[r].phase = "waiting" /\ fetches[resolutions[r].fetch].st # "inflight"
      [] OTHER -> resolutions[r].phase = "waiting"

\* the outcome loadImageIcon hands to resolution r
Outcome(r) ==
    CASE resolutions[r].role \in {"owner", "joiner"} -> fetches[resolutions[r].fetch].st
      [] resolutions[r].role \in {"hit", "inline"} -> "ok"
      [] OTHER -> "fail"

\* whether a promise reaction is waiting in the microtask queue: the network's
\* answer is a task of its own, and the queue is drained before a task starts
MicrotaskPending ==
    \/ \E r \in DOMAIN resolutions :
          \/ /\ resolutions[r].role = "owner"
             /\ resolutions[r].phase = "waiting"
             /\ fetches[resolutions[r].fetch].st # "inflight"
          \/ Settled(r)
          \/ resolutions[r].phase = "settled"
    \/ \E k \in DOMAIN configureCalls :
          /\ configureCalls[k].st = "pending"
          /\ \A r \in configureCalls[k].awaits : resolutions[r].phase = "done"

\* fetchAndCacheImage from the network's answer to its return or throw
FetchComplete ==
    \E f \in DOMAIN fetches, resp \in Responses :
        /\ fetches[f].st = "inflight"
        /\ ~MicrotaskPending
        /\ IF fetchSucceeds(resp)
           THEN /\ cache' = cleanupCache([cache EXCEPT ![fetches[f].url] = [ts |-> now, by |-> f]], now)
                /\ fetches' = [fetches EXCEPT ![f].st = "ok", ![f].kind = FailureKind(resp)]
           ELSE /\ cache' = cache
                /\ fetches' = [fetches EXCEPT ![f].st = "fail", ![f].kind = FailureKind(resp)]
        /\ UNCHANGED <<now, loadingPromises, loadingStates, imageLoadPromises, resolutions,
                       configured, configs, configureCalls, clears, ticks>>
        /\ UNCHANGED notWeb

\* the .then / .catch handlers of preloadItemImage
ThenCatch ==
    \E r \in DOMAIN resolutions :
        /\ Settled(r)
        /\ loadingStates' = [loadingStates EXCEPT ![resolutions[r].tab] =
                                IF Outcome(r) = "ok" THEN "loaded" ELSE "error"]
        /\ resolutions' = [resolutions EXCEPT ![r].phase = "settled"]
        /\ UNCHANGED <<now, cache, loadingPromises, fetches, imageLoadPromises,
                       configured, configs, configureCalls, clears, ticks>>
        /\ UNCHANGED notWeb

\* a promise chain that has run to its end
DoneResolution ==
    [tab |-> "", src |-> <<>>, gen |-> 0, role |-> "", fetch |-> 0, phase |-> "done", at |-> 0]

\* the .finally handler of preloadItemImage
Finally ==
    \E r \in DOMAIN resolutions :
        /\ resolutions[r].phase = "settled"
        /\ imageLoadPromises' = [imageLoadPromises EXCEPT ![resolutions[r].tab] = 0]
        /\ resolutions' = [resolutions EXCEPT ![r] = DoneResolution]
        /\ UNCHANGED <<now, cache, loadingPromises, fetches, loadingStates,
                       configured, configs, configureCalls, clears, ticks>>
        /\ UNCHANGED notWeb

\* ImageManager.clearCache
clearCache == 
    /\ cache' = [u \in Urls |-> NoEntry]
    /\ loadingPromises' = [u \in Urls |-> 0]

\* TabsBarWeb.clearImageCache
ClearImageCache ==
    /\ clears < MaxClears
    /\ clearCache
    /\ loadingStates' = [t \in TabKeys |-> "none"]
    /\ imageLoadPromises' = [t \in TabKeys |-> 0]
    /\ fetches' = [f \in DOMAIN fetches |->
                     IF fetches[f].st = "inflight" THEN [fetches[f] EXCEPT !.cleared = TRUE]
                     ELSE fetches[f]]
    /\ clears' = clears + 1
    /\ UNCHANGED <<now, resolutions, configured, configs, configureCalls, ticks>>
    /\ UNCHANGED notWeb

\* the clock: Date.now() moves on by one of the spans ds
Advance(ds) ==
    \E d \in ds :
        /\ ticks < MaxTicks
        /\ now' = now + d
        /\ ticks' = ticks + 1
        /\ UNCHANGED <<cache, loadingPromises, fetches, loadingStates, imageLoadPromises,
                       resolutions, configured, configs, configureCalls, clears>>
        /\ UNCHANGED notWeb

\* the clock moves on by 1 ms, by just under 24 h or by 24 h
Tick == Advance({1, CACHE_DURATION - 1, CACHE_DURATION})

\* the clock moves on by 24 h or by just over 24 h
TickPast == Advance({CACHE_DURATION, CACHE_DURATION + 1})

(***************************************************************************)
(* part_000: TabsBarOverlay.ImageUtils, the remote image loader of the     *)
(* native overlay.                                                         *)
(***************************************************************************)
maxFileSize == 5 * 1024 * 1024

validTypes == {"image/png", "image/jpeg", "image/jpg", "image/svg+xml", "image/webp"}

\* String.lowercased() on the MIME types, shapes and sizes the model feeds in
lowercased(s) ==
    CASE s = "Circle" -> "circle"
      [] s = "Stretch" -> "stretch"
      [] OTHER -> toLowerCase(s)

\* what URLSession hands to the completion handler of a data task; ctype "" is
\* a response without a MIME type, decodes says whether UIImage(data:) succeeds
NativeResponses ==
    {[net |-> "ok", status |-> 200, ctype |-> "image/png", size |-> maxFileSize, decodes |-> TRUE],
     [net |-> "ok", status |-> 200, ctype |-> "IMAGE/PNG", size |-> 1, decodes |-> TRUE],
     [net |-> "ok", status |-> 200, ctype |-> "", size |-> 1, decodes |-> TRUE],
     [net |-> "ok", status |-> 404, ctype |-> "image/png", size |-> 1, decodes |-> TRUE],
     [net |-> "ok", status |-> 200, ctype |-> "text/html", size |-> 1, decodes |-> TRUE],
     [net |-> "ok", status |-> 200, ctype |-> "image/png", size |-> maxFileSize + 1, decodes |-> TRUE],
     [net |-> "ok", status |-> 200, ctype |-> "image/png", size |-> 1, decodes |-> FALSE],
     [net |-> "error", status |-> 0, ctype |-> "", size |-> 0, decodes |-> FALSE]}

\* the guards of the data task's completion handler before imageCache is written
dataTaskSucceeds(resp) ==
    /\ resp.net = "ok"
    /\ resp.status = 200
    /\ (resp.ctype # "" => lowercased(resp.ctype) \in validTypes)
    /\ ~(resp.size > maxFileSize)
    /\ resp.decodes

\* the data task running for url (there is one whenever loadingStates[url] is true)
RunningTask(url) ==
    IF \E t \in DOMAIN tasks : tasks[t].url = url /\ tasks[t].st = "running"
    THEN CHOOSE t \in DOMAIN tasks : tasks[t].url = url /\ tasks[t].st = "running"
    ELSE 0

\* the requests with request q (a record) put at its place q.id
WithRequest(q) ==
    IF q.id \in DOMAIN requests THEN [requests EXCEPT ![q.id] = q] ELSE Append(requests, q)

\* ImageUtils.loadImageFromUrl, called for request q (a record) on the main
\* thread: completes it from the cache, re-schedules it in 0.1 s, or starts a
\* data task for it
loadImageFromUrl(q) ==
    IF imageCache[q.url] # 0
    THEN /\ requests' = WithRequest([q EXCEPT !.phase = "done", !.result = "ok"])
         /\ UNCHANGED <<imageCache, urlLoadingStates, tasks>>
    ELSE IF urlLoadingStates[q.url] = "true"
    THEN /\ requests' = WithRequest([q EXCEPT !.phase = "retry"])
         /\ UNCHANGED <<imageCache, urlLoadingStates, tasks>>
    ELSE /\ urlLoadingStates' = [urlLoadingStates EXCEPT ![q.url] = "true"]
         /\ tasks' = Append(tasks, [url |-> q.url, st |-> "running", at |-> 0, kind |-> ""])
         /\ requests' = WithRequest([q EXCEPT !.phase = "fetching", !.task = Len(tasks) + 1])
         /\ UNCHANGED imageCache

\* processImageIcon reaches loadImageFromUrl for a tab item with a remote image
LoadImageFromUrl ==
    \E url \in Urls :
        /\ Len(requests) < MaxRequests
        /\ loadImageFromUrl([id |-> Len(requests) + 1, url |-> url, phase |-> "new", task |-> 0,
                             joined |-> IF imageCache[url] = 0 /\ urlLoadingStates[url] = "true"
                                        THEN RunningTask(url) ELSE 0,
                             result |-> "none"])
        /\ UNCHANGED notNative

\* the block loadImageFromUrl gave to DispatchQueue.main.asyncAfter runs
RetryLoad ==
    \E q \in DOMAIN requests :
        /\ requests[q].phase = "retry"
        /\ loadImageFromUrl(requests[q])
        /\ UNCHANGED notNative

\* the completion handler of the data task, with its deferred loadingStates write
DataTaskComplete ==
    \E t \in DOMAIN tasks, resp \in NativeResponses :
        /\ tasks[t].st = "running"
        /\ tasks' = [tasks EXCEPT ![t].st = IF dataTaskSucceeds(resp) THEN "ok" ELSE "fail",
                                  ![t].at = now, ![t].kind = FailureKind(resp)]
        /\ imageCache' = IF dataTaskSucceeds(resp)
                         THEN [imageCache EXCEPT ![tasks[t].url] = t] ELSE imageCache
        /\ urlLoadingStates' = [urlLoadingStates EXCEPT ![tasks[t].url] = "false"]
        /\ requests' = [q \in DOMAIN requests |->
                          IF requests[q].phase = "fetching" /\ requests[q].task = t
                          THEN [requests[q] EXCEPT !.phase = "queued",
                                    !.result = IF dataTaskSucceeds(resp) THEN "ok" ELSE "fail"]
                          ELSE requests[q]]
        /\ UNCHANGED notNative

\* the block the completion handler gave to DispatchQueue.main.async runs
MainCompletion ==
    \E q \in DOMAIN requests :
        /\ requests[q].phase = "queued"
        /\ requests' = [requests EXCEPT ![q].phase = "done"]
        /\ UNCHANGED <<imageCache, urlLoadingStates, tasks>>
        /\ UNCHANGED notNative

NativeNext ==
    \/ LoadImageFromUrl
    \/ Tick
    \/ RetryLoad
    \/ DataTaskComplete
    \/ MainCompletion

(***************************************************************************)
(* TabsBarPlugin.swift: TabsBarPlugin, and part_000: TabsBarOverlay.       *)
(* Tabs are numbered from 1 here (UITabBarItem.tag + 1); 0 stands for nil. *)
(***************************************************************************)
OverlayIds == {"a", "b", "c"}

NoId == "<nil>"

\* the item lists (their ids) a configure call may carry: any ids, the empty id
\* and repeated ids included
ItemIdLists == UNION {[1..n -> OverlayIds \cup {""}] : n \in 0..MaxItems}

\* the values a call can carry as "value": a number, a string, null, or nothing
JSNumber(n) == [type |-> "number", n |-> n, s |-> ""]

JSString(str) == [type |-> "string", n |-> 0, s |-> str]

JSNull == [type |-> "null", n |-> 0, s |-> ""]

JSUndefined == [type |-> "undefined", n |-> 0, s |-> ""]

\* the values given to setBadge()
BadgeInputs ==
    {JSNumber(0 - 1), JSNumber(0), JSNumber(2), JSString("dot"), JSString("x"), JSNull,
     JSUndefined}

\* TabsBarBadge?: .number(n), .dot, or nil
NumberBadge(n) == [kind |-> "number", n |-> n]

DotBadge == [kind |-> "dot", n |-> 0]

NoBadge == [kind |-> "nil", n |-> 0]

\* UITabBarItem.badgeValue: the decimal text of a number, the dot, or nil
Shows(what, n) == [shown |-> what, n |-> n]

NoBlock ==
    [kind |-> "none", items |-> <<>>, icons |-> <<>>, id |-> NoId, badge |-> NoBadge,
     visible |-> TRUE]

NoCall ==
    [name |-> "none", id |-> NoId, value |-> JSUndefined, dup |-> FALSE, resolved |-> FALSE,
     rejected |-> FALSE]

NoGesture ==
    [phase |-> "idle", idx |-> 0, before |-> 0, kind |-> "none", disturbed |-> FALSE,
     lost |-> FALSE]

\* whether two items of the list carry the same id
HasDuplicate(its) == \E i, j \in DOMAIN its : i # j /\ its[i] = its[j]

\* TabsBarOverlay.idToIndex, as update() builds it from items without repeated ids
idToIndex(its, id) ==
    IF \E i \in DOMAIN its : its[i] = id THEN CHOOSE i \in DOMAIN its : its[i] = id ELSE 0

\* the overlay's selection state, as the handlers below read and write it
Overlay ==
    [sel |-> selectedItem, last |-> lastSelectedIndex,
     sup |-> suppressNextSelectionEvent, ev |-> events]

\* restorePreviousSelection() as it would be if it left the highlight alone
restoreNothing(o, n) == o

\* TabsBarOverlay.restorePreviousSelection
restorePreviousSelection(o, n) ==
    IF o.last # 0 /\ o.last >= 1 /\ o.last <= n THEN [o EXCEPT !.sel = o.last] ELSE o

\* TabsBarOverlay.tabBar(_:didSelect:) for the item with index idx
didSelect(o, its, idx) ==
    IF ~(idx >= 1 /\ idx <= Len(its)) THEN o
    ELSE IF o.sup THEN restorePreviousSelection([o EXCEPT !.sup = FALSE], Len(its))
    ELSE [o EXCEPT !.last = idx, !.ev = Append(o.ev, [id |-> its[idx], kind |-> "tap"])]

\* UITabBar on a touch-up inside the button of tab idx: it selects the item and
\* tells its delegate
touchUpInside(o, its, idx) == didSelect([o EXCEPT !.sel = idx], its, idx)

\* TabsBarOverlay.handleLongPress for the recognizer of the button of tab idx
handleLongPress(o, its, state, idx) ==
    CASE state = "began" ->
            IF ~(idx >= 1 /\ idx <= Len(its)) THEN o
            ELSE LET r == restorePreviousSelection([o EXCEPT !.sup = TRUE], Len(its))
                 IN [r EXCEPT !.ev = Append(r.ev, [id |-> its[idx], kind |-> "longPress"])]
      [] state \in {"ended", "cancelled", "failed"} -> [o EXCEPT !.sup = FALSE]
      [] OTHER -> o

\* update() as it would be if it took no notice of initialId
updateToFirst(its, initialId) == IF Len(its) > 0 THEN 1 ELSE 0

\* update() as it would be if it kept the stored index when initialId names no tab
updateKeepingIndex(its, initialId) ==
    IF initialId # NoId /\ idToIndex(its, initialId) # 0 /\ idToIndex(its, initialId) <= Len(its)
    THEN idToIndex(its, initialId)
    ELSE lastSelectedIndex

\* TabsBarOverlay.update: the selection it leaves for the items its and initialId
update(its, initialId) ==
    IF initialId # NoId /\ idToIndex(its, initialId) # 0 /\ idToIndex(its, initialId) <= Len(its)
    THEN idToIndex(its, initialId)
    ELSE IF Len(its) > 0 THEN 1
    ELSE 0

\* select() as it would be if it did nothing
selectNothing(its, id, cur) == cur

\* select() as it would be if an unknown id selected the first tab
selectFirstWhenUnknown(its, id, cur) ==
    IF idToIndex(its, id) # 0 /\ idToIndex(its, id) <= Len(its) THEN idToIndex(its, id)
    ELSE IF Len(its) > 0 THEN 1
    ELSE cur

\* TabsBarOverlay.select: the selection it leaves for id (cur when id is unknown)
select(its, id, cur) ==
    IF idToIndex(its, id) # 0 /\ idToIndex(its, id) <= Len(its) THEN idToIndex(its, id) ELSE cur

\* TabsBarOverlay.applyBadge: the badgeValue it gives a UITabBarItem
applyBadge(badge) ==
    CASE badge.kind = "number" -> IF badge.n > 0 THEN Shows("count", badge.n) ELSE Shows("nil", 0)
      [] badge.kind = "dot" -> Shows("dot", 0)
      [] OTHER -> Shows("nil", 0)

\* setBadge() as it would be if an unknown id stood for the first tab
setBadgeFirstWhenUnknown(its, bvs, id, value) ==
    IF idToIndex(its, id) # 0 /\ idToIndex(its, id) <= Len(bvs)
    THEN [bvs EXCEPT ![idToIndex(its, id)] = applyBadge(value)]
    ELSE IF Len(bvs) > 0 THEN [bvs EXCEPT ![1] = applyBadge(value)]
    ELSE bvs

\* TabsBarOverlay.setBadge on the bar items with badge values bvs
setBadge(its, bvs, id, value) ==
    IF idToIndex(its, id) # 0 /\ idToIndex(its, id) <= Len(bvs)
    THEN [bvs EXCEPT ![idToIndex(its, id)] = applyBadge(value)]
    ELSE bvs

\* the closure of TabsBarPlugin.setBadge that reads "value" from the call
badgeValue(v) ==
    IF v.type = "string" /\ v.s = "dot" THEN DotBadge
    ELSE IF v.type = "null" THEN NoBadge
    ELSE IF v.type = "number" THEN (IF v.n < 0 THEN NoBadge ELSE NumberBadge(v.n))
    ELSE NoBadge

\* TabsBarOverlay.configureLongPressRecognizers: the recognizers are removed
\* from their buttons and new ones are made. A recognizer removed while its
\* long press is held may or may not be sent .cancelled by the toolkit: these
\* are the values the flag can have afterwards
configureLongPressRecognizers(g, sup) ==
    IF g.phase = "long" THEN {sup, handleLongPress(Overlay, items, "cancelled", g.idx).sup}
    ELSE {sup}

\* the closure ensureOverlay() gives the overlay as onInteraction, as it would
\* be if a long press were notified under an event name of its own
onInteractionByKind(id, interaction) ==
    [event |-> IF interaction = "longPress" THEN "longPress" ELSE "selected",
     id |-> id, interaction |-> interaction]

\* the closure ensureOverlay() gives the overlay as onInteraction: what
\* notifyListeners hands to the host for the interaction with tab id
onInteraction(id, interaction) ==
    [event |-> "selected", id |-> id, interaction |-> interaction]

\* the notifications the host has been given since the last press-down
Delivered == [k \in DOMAIN events |-> onInteraction(events[k].id, events[k].kind)]

\* the overlay's selection state becomes o
Becomes(o) ==
    /\ selectedItem' = o.sel
    /\ lastSelectedIndex' = o.last
    /\ suppressNextSelectionEvent' = o.sup
    /\ events' = o.ev

\* TabsBarItem.systemIcon: the name of an SF Symbol, and a name that is none
GoodSymbol == "house"
BadSymbol == "no.such.symbol"

\* TabsBarItem.image: the name of a bundled image asset, or nil
BundledImage == "tab-home"
NoImage == "<no image>"

\* a data URI that matches the pattern of isValidBase64DataUri and is no image
BadInlineUri == <<"data:", "image/", "png", ";base64,", "!!!!">>

\* the icon fields of a TabsBarItem: imageIcon.image, systemIcon and image
IconModels ==
    [src : {NoIcon, HttpsUrl, InlineUri, BadInlineUri, BadSource},
     sys : {GoodSymbol, BadSymbol},
     img : {NoImage, BundledImage}]

\* an item with a systemIcon only
PlainIcon == [src |-> NoIcon, sys |-> GoodSymbol, img |-> NoImage]

\* ImageUtils.isValidBase64DataUri: NSRegularExpression with the pattern
\* ^data:image/(png|jpeg|jpg|svg\+xml|webp);base64, and .caseInsensitive
ImageUtils_isValidBase64DataUri(src) ==
    /\ Len(src) >= 4
    /\ lowerPart(src[1]) = "data:"
    /\ lowerPart(src[2]) = "image/"
    /\ lowerPart(src[3]) \in {"png", "jpeg", "jpg", "svg+xml", "webp"}
    /\ lowerPart(src[4]) = ";base64,"

\* URL(string:)?.scheme, or "nil": Foundation takes what stands before the
\* first colon as the scheme and asks for no host
URL_scheme(src) ==
    IF Len(src) = 0 \/ lowerPart(src[1]) \notin Schemes THEN "nil"
    ELSE src[1]

\* ImageUtils.isValidHttpUrl
ImageUtils_isValidHttpUrl(src) == URL_scheme(src) = "http:" \/ URL_scheme(src) = "https:"

\* ImageUtils.loadImageFromBase64: the image, or "nil"
loadImageFromBase64(src) == IF src = InlineUri THEN "imageIcon" ELSE "nil"

\* UIImage(systemName: systemIcon) ?? UIImage()
systemImage(sys) == IF sys = GoodSymbol THEN "symbol" ELSE "empty"

\* the branch ImageUtils.processImageIcon takes for the source src
processImageIconBranch(src) ==
    IF ImageUtils_isValidBase64DataUri(src) THEN "inline"
    ELSE IF ImageUtils_isValidHttpUrl(src) THEN "remote"
    ELSE "invalid"

\* ImageUtils.processImageIcon for the bar item idx of model m: the call of
\* loadImageIcon as it stands when processImageIcon returns. A data URI and an
\* invalid source have called completion, whose block is queued on the main
\* queue; a URL is with loadImageFromUrl
processImageIcon(m, idx) ==
    CASE processImageIconBranch(m.src) = "inline" ->
            [idx |-> idx, sys |-> m.sys, st |-> "queued", result |-> loadImageFromBase64(m.src)]
      [] processImageIconBranch(m.src) = "remote" ->
            [idx |-> idx, sys |-> m.sys, st |-> "fetching", result |-> "nil"]
      [] OTHER -> [idx |-> idx, sys |-> m.sys, st |-> "queued", result |-> "nil"]

\* ImageUtils.processImageIcon called with the source raw: the branch it takes
\* and, for a URL, the string it hands to loadImageFromUrl as the key of the cache
ProcessImageIcon ==
    /\ probe = NoProbe
    /\ \E raw \in RawSources :
          probe' = [platform |-> "ios", raw |-> raw, kind |-> processImageIconBranch(raw),
                    key |-> IF processImageIconBranch(raw) = "remote" THEN raw ELSE <<>>]
    /\ UNCHANGED <<webVars, nativeVars, overlayVars, iconVars, rendered>>

\* TabsBarOverlay.loadImageForItem on a UITabBarItem made with image: nil: the
\* image the item has when it returns, and the loads it started
loadImageForItem(m, idx) ==
    IF m.src # NoIcon
    THEN [image |-> "nil", loads |-> {processImageIcon(m, idx)}]
    ELSE [image |-> systemImage(m.sys), loads |-> {}]

\* TabsBarPlugin.configure up to call.resolve() / call.reject()
PluginConfigure(lists, models, visibles) ==
    \E its \in lists, initialId \in OverlayIds \cup {NoId}, visible \in visibles :
      \E icons \in [DOMAIN its -> models] :
        /\ ~crashed
        /\ pending = NoBlock
        /\ IF Len(its) = 0 \/ \E i \in DOMAIN its : its[i] = ""
           THEN /\ call' = [name |-> "configure", id |-> NoId, value |-> JSUndefined,
                            dup |-> HasDuplicate(its),
                            resolved |-> FALSE, rejected |-> TRUE]
                /\ pending' = pending
           ELSE /\ call' = [name |-> "configure", id |-> NoId, value |-> JSUndefined,
                            dup |-> HasDuplicate(its),
                            resolved |-> TRUE, rejected |-> FALSE]
                /\ pending' = [kind |-> "update", items |-> its, icons |-> icons,
                                id |-> initialId, badge |-> NoBadge, visible |-> visible]
        /\ UNCHANGED <<overlayVC, crashed, items, selectedItem, lastSelectedIndex,
                       suppressNextSelectionEvent, gesture, events>>
        /\ UNCHANGED iconVars
        /\ UNCHANGED notOverlay

\* whether the id of the selected tab is none of the ids of the list its
SelectionLost(its) ==
    /\ lastSelectedIndex \in DOMAIN items
    /\ \A i \in DOMAIN its : its[i] # items[lastSelectedIndex]

\* the main-queue block of TabsBarPlugin.configure: ensureOverlay, overlay.update
ConfigureBlock ==
    /\ ~crashed
    /\ pending.kind = "update"
    /\ pending' = NoBlock
    /\ overlayVC' = TRUE
    /\ items' = pending.items
    /\ IF HasDuplicate(pending.items)
       THEN \* Dictionary(uniqueKeysWithValues:) traps on a repeated key
            /\ crashed' = TRUE
            /\ UNCHANGED <<selectedItem, lastSelectedIndex, suppressNextSelectionEvent,
                           gesture, events, barItems, iconLoads, badgeValues, view>>
       ELSE /\ crashed' = FALSE
            \* the loads of the bar items replaced here complete on UITabBarItems
            \* that are no longer in the bar: they are not followed further
            /\ barItems' = [i \in DOMAIN pending.items |->
                   [src |-> pending.icons[i].src, sys |-> pending.icons[i].sys,
                    img |-> pending.icons[i].img,
                    image |-> loadImageForItem(pending.icons[i], i).image]]
            /\ iconLoads' = UNION {loadImageForItem(pending.icons[i], i).loads :
                                     i \in DOMAIN pending.items}
            \* the items of the configure calls explored carry no badge
            /\ badgeValues' = [i \in DOMAIN pending.items |-> applyBadge(NoBadge)]
            /\ view' = [view EXCEPT !.isHidden = ~pending.visible]
            /\ selectedItem' = update(pending.items, pending.id)
            /\ lastSelectedIndex' = update(pending.items, pending.id)
            /\ suppressNextSelectionEvent' \in
                   configureLongPressRecognizers(gesture, suppressNextSelectionEvent)
            /\ gesture' = IF gesture.phase = "idle"
                          THEN [gesture EXCEPT !.disturbed = TRUE,
                                               !.lost = SelectionLost(pending.items)]
                          ELSE [gesture EXCEPT !.lost = SelectionLost(pending.items),
                                               !.phase = "idle", !.kind = "orphaned",
                                               !.disturbed = TRUE]
            /\ events' = events
    /\ UNCHANGED call
    /\ UNCHANGED notOverlay

\* loadImageFromUrl hands its outcome to the closure of processImageIcon, which
\* calls completion: the block of loadImageForItem is queued on the main queue
IconTaskComplete ==
    \E l \in iconLoads, resp \in NativeResponses :
        /\ ~crashed
        /\ l.st = "fetching"
        /\ iconLoads' = (iconLoads \ {l}) \cup
               {[l EXCEPT !.st = "queued",
                          !.result = IF dataTaskSucceeds(resp) THEN "imageIcon" ELSE "nil"]}
        /\ UNCHANGED <<barItems, badgeValues, view>>
        /\ UNCHANGED overlayVars
        /\ UNCHANGED notOverlay

\* the main-queue block of loadImageForItem: the image, or the systemIcon
IconBlock ==
    \E l \in iconLoads :
        /\ ~crashed
        /\ l.st = "queued"
        /\ barItems' = [barItems EXCEPT ![l.idx].image =
                            IF l.result # "nil" THEN l.result ELSE systemImage(l.sys)]
        /\ iconLoads' = iconLoads \ {l}
        /\ UNCHANGED <<badgeValues, view>>
        /\ UNCHANGED overlayVars
        /\ UNCHANGED notOverlay

\* TabsBarPlugin.select up to call.resolve()
PluginSelect ==
    \E id \in OverlayIds :
        /\ ~crashed
        /\ pending = NoBlock
        /\ call' = [name |-> "select", id |-> id, value |-> JSUndefined, dup |-> FALSE,
                    resolved |-> TRUE, rejected |-> FALSE]
        /\ pending' = [kind |-> "select", items |-> <<>>, icons |-> <<>>, id |-> id,
                       badge |-> NoBadge, visible |-> TRUE]
        /\ UNCHANGED <<overlayVC, crashed, items, selectedItem, lastSelectedIndex,
                       suppressNextSelectionEvent, gesture, events>>
        /\ UNCHANGED iconVars
        /\ UNCHANGED notOverlay

\* the main-queue block of TabsBarPlugin.select: overlay.select, or a reject
\* when there is no overlay yet
SelectBlock ==
    /\ ~crashed
    /\ pending.kind = "select"
    /\ pending' = NoBlock
    /\ IF ~overlayVC
       THEN /\ call' = [call EXCEPT !.rejected = TRUE]
            /\ UNCHANGED <<selectedItem, lastSelectedIndex, gesture>>
       ELSE /\ call' = call
            /\ selectedItem' = select(items, pending.id, selectedItem)
            /\ lastSelectedIndex' = select(items, pending.id, lastSelectedIndex)
            /\ gesture' = IF idToIndex(items, pending.id) # 0
                          THEN [gesture EXCEPT !.disturbed = TRUE] ELSE gesture
    /\ UNCHANGED <<overlayVC, crashed, items, suppressNextSelectionEvent, events>>
    /\ UNCHANGED iconVars
    /\ UNCHANGED notOverlay

\* a finger comes down on the button of tab i
PressDown ==
    \E i \in DOMAIN items :
        /\ ~crashed
        /\ overlayVC
        /\ ~view.isHidden /\ view.isUserInteractionEnabled
        /\ gesture.phase = "idle"
        /\ gesture' = [phase |-> "down", idx |-> i, before |-> lastSelectedIndex,
                       kind |-> "none", disturbed |-> FALSE, lost |-> FALSE]
        /\ events' = <<>>
        /\ UNCHANGED <<overlayVC, pending, call, crashed, items, selectedItem,
                       lastSelectedIndex, suppressNextSelectionEvent>>
        /\ UNCHANGED iconVars
        /\ UNCHANGED notOverlay

\* the finger is lifted before minimumPressDuration (0.45 s): the recognizer
\* fails without a callback and UITabBar selects the tab
TapRelease ==
    /\ ~crashed
    /\ gesture.phase = "down"
    /\ Becomes(touchUpInside(Overlay, items, gesture.idx))
    /\ gesture' = [gesture EXCEPT !.phase = "idle", !.kind = "tap"]
    /\ UNCHANGED <<overlayVC, pending, call, crashed, items>>
    /\ UNCHANGED iconVars
    /\ UNCHANGED notOverlay

\* the touch is cancelled before minimumPressDuration: no callback reaches the overlay
PressCancelled ==
    /\ ~crashed
    /\ gesture.phase = "down"
    /\ gesture' = [gesture EXCEPT !.phase = "idle", !.kind = "cancelled"]
    /\ UNCHANGED <<overlayVC, pending, call, crashed, items, selectedItem, lastSelectedIndex,
                   suppressNextSelectionEvent, events>>
    /\ UNCHANGED iconVars
    /\ UNCHANGED notOverlay

\* the finger has been down for minimumPressDuration: handleLongPress(.began)
LongPressBegan ==
    /\ ~crashed
    /\ gesture.phase = "down"
    /\ Becomes(handleLongPress(Overlay, items, "began", gesture.idx))
    /\ gesture' = [gesture EXCEPT !.phase = "long"]
    /\ UNCHANGED <<overlayVC, pending, call, crashed, items>>
    /\ UNCHANGED iconVars
    /\ UNCHANGED notOverlay

\* the finger is lifted after a long press: the recognizer reports .ended and,
\* when the finger is still on the button, UITabBar selects the tab; the
\* toolkit fixes the order of the two
LongPressRelease ==
    \E order \in {"select-ended", "ended-select", "ended"} :
        /\ ~crashed
        /\ gesture.phase = "long"
        /\ Becomes(
             CASE order = "select-ended" ->
                    handleLongPress(touchUpInside(Overlay, items, gesture.idx),
                                    items, "ended", gesture.idx)
               [] order = "ended-select" ->
                    touchUpInside(handleLongPress(Overlay, items, "ended", gesture.idx),
                                  items, gesture.idx)
               [] OTHER -> handleLongPress(Overlay, items, "ended", gesture.idx))
        /\ gesture' = [gesture EXCEPT !.phase = "idle", !.kind = "long"]
        /\ UNCHANGED <<overlayVC, pending, call, crashed, items>>
        /\ UNCHANGED iconVars
        /\ UNCHANGED notOverlay

\* the held long press is cancelled by the system: handleLongPress(.cancelled)
LongPressCancelled ==
    /\ ~crashed
    /\ gesture.phase = "long"
    /\ Becomes(handleLongPress(Overlay, items, "cancelled", gesture.idx))
    /\ gesture' = [gesture EXCEPT !.phase = "idle", !.kind = "cancelled"]
    /\ UNCHANGED <<overlayVC, pending, call, crashed, items>>
    /\ UNCHANGED iconVars
    /\ UNCHANGED notOverlay

\* TabsBarPlugin.setBadge up to call.resolve()
PluginSetBadge ==
    \E id \in OverlayIds, v \in BadgeInputs :
        /\ ~crashed
        /\ pending = NoBlock
        /\ call' = [name |-> "setBadge", id |-> id, value |-> v, dup |-> FALSE,
                    resolved |-> TRUE, rejected |-> FALSE]
        /\ pending' = [kind |-> "badge", items |-> <<>>, icons |-> <<>>, id |-> id,
                       badge |-> badgeValue(v), visible |-> TRUE]
        /\ UNCHANGED <<overlayVC, crashed, items, selectedItem, lastSelectedIndex,
                       suppressNextSelectionEvent, gesture, events>>
        /\ UNCHANGED iconVars
        /\ UNCHANGED notOverlay

\* the main-queue block of TabsBarPlugin.setBadge: overlay.setBadge, or a
\* reject when there is no overlay yet
SetBadgeBlock ==
    /\ ~crashed
    /\ pending.kind = "badge"
    /\ pending' = NoBlock
    /\ IF ~overlayVC
       THEN /\ call' = [call EXCEPT !.rejected = TRUE]
            /\ badgeValues' = badgeValues
       ELSE /\ call' = call
            /\ badgeValues' = setBadge(items, badgeValues, pending.id, pending.badge)
    /\ UNCHANGED <<overlayVC, crashed, items, selectedItem, lastSelectedIndex,
                   suppressNextSelectionEvent, gesture, events>>
    /\ UNCHANGED <<barItems, iconLoads, view>>
    /\ UNCHANGED notOverlay

\* TabsBarPlugin.show up to call.resolve()
PluginShow ==
    /\ ~crashed
    /\ pending = NoBlock
    /\ call' = [name |-> "show", id |-> NoId, value |-> JSUndefined, dup |-> FALSE,
                resolved |-> TRUE, rejected |-> FALSE]
    /\ pending' = [NoBlock EXCEPT !.kind = "show"]
    /\ UNCHANGED <<overlayVC, crashed, items, selectedItem, lastSelectedIndex,
                   suppressNextSelectionEvent, gesture, events>>
    /\ UNCHANGED iconVars
    /\ UNCHANGED notOverlay

\* the main-queue block of TabsBarPlugin.show: the view is shown and made
\* interactive, or a reject when there is no overlay yet
ShowBlock ==
    /\ ~crashed
    /\ pending.kind = "show"
    /\ pending' = NoBlock
    /\ IF ~overlayVC
       THEN /\ call' = [call EXCEPT !.rejected = TRUE]
            /\ view' = view
       ELSE /\ call' = call
            /\ view' = [isHidden |-> FALSE, isUserInteractionEnabled |-> TRUE]
    /\ UNCHANGED <<overlayVC, crashed, items, selectedItem, lastSelectedIndex,
                   suppressNextSelectionEvent, gesture, events>>
    /\ UNCHANGED <<barItems, iconLoads, badgeValues>>
    /\ UNCHANGED notOverlay

\* TabsBarPlugin.hide up to call.resolve()
PluginHide ==
    /\ ~crashed
    /\ pending = NoBlock
    /\ call' = [name |-> "hide", id |-> NoId, value |-> JSUndefined, dup |-> FALSE,
                resolved |-> TRUE, rejected |-> FALSE]
    /\ pending' = [NoBlock EXCEPT !.kind = "hide"]
    /\ UNCHANGED <<overlayVC, crashed, items, selectedItem, lastSelectedIndex,
                   suppressNextSelectionEvent, gesture, events>>
    /\ UNCHANGED iconVars
    /\ UNCHANGED notOverlay

\* the main-queue block of TabsBarPlugin.hide: the view is hidden and made
\* deaf to touches, or a reject when there is no overlay yet
HideBlock ==
    /\ ~crashed
    /\ pending.kind = "hide"
    /\ pending' = NoBlock
    /\ IF ~overlayVC
       THEN /\ call' = [call EXCEPT !.rejected = TRUE]
            /\ view' = view
       ELSE /\ call' = call
            /\ view' = [isHidden |-> TRUE, isUserInteractionEnabled |-> FALSE]
    /\ UNCHANGED <<overlayVC, crashed, items, selectedItem, lastSelectedIndex,
                   suppressNextSelectionEvent, gesture, events>>
    /\ UNCHANGED <<barItems, iconLoads, badgeValues>>
    /\ UNCHANGED notOverlay

\* the item lists explored for the bridge calls
BridgeIdLists == {<<"a">>, <<"a", "b">>}

\* configure calls that show the bar or leave it hidden
BridgeConfigure == PluginConfigure(BridgeIdLists, {PlainIcon}, BOOLEAN)

\* the item lists explored for the badges of the tabs
BadgeIdLists == {<<"a">>, <<"a", "b">>, <<"b", "c">>}

\* configure calls for the badges of the tabs
BadgeConfigure == PluginConfigure(BadgeIdLists, {PlainIcon}, {TRUE})

\* configure calls whose items have a systemIcon only
OverlayConfigure == PluginConfigure(ItemIdLists, {PlainIcon}, {TRUE})

\* the item lists explored for the icons of the tabs
IconIdLists == {<<"a">>, <<"b">>}

\* configure calls whose items have any icon fields
IconConfigure == PluginConfigure(IconIdLists, IconModels, {TRUE})

OverlayNext ==
    \/ OverlayConfigure
    \/ ConfigureBlock
    \/ PluginSelect
    \/ SelectBlock
    \/ PressDown
    \/ TapRelease
    \/ PressCancelled
    \/ LongPressBegan
    \/ LongPressRelease
    \/ LongPressCancelled

(***************************************************************************)
(* part_000: ImageUtils, the styling of a loaded image                     *)
(***************************************************************************)
RECURSIVE gcd(_, _)
\* the greatest common divisor of two naturals
gcd(a, b) == IF b = 0 THEN a ELSE gcd(b, a % b)

\* the CGFloat n / d (d positive), in lowest terms
CGFloat(n, d) ==
    LET g == gcd(IF n < 0 THEN 0 - n ELSE n, d)
    IN [n |-> n \div g, d |-> d \div g]

\* CGFloat arithmetic
plus(a, b) == CGFloat(a.n * b.d + b.n * a.d, a.d * b.d)

minus(a, b) == CGFloat(a.n * b.d - b.n * a.d, a.d * b.d)

times(a, b) == CGFloat(a.n * b.n, a.d * b.d)

\* a / b for a positive b
over(a, b) == CGFloat(a.n * b.d, a.d * b.n)

min(a, b) == IF a.n * b.d <= b.n * a.d THEN a ELSE b

max(a, b) == IF a.n * b.d >= b.n * a.d THEN a ELSE b

CGSize(width, height) == [width |-> width, height |-> height]

CGRect(x, y, width, height) == [x |-> x, y |-> y, width |-> width, height |-> height]

\* CGRect(origin: .zero, size: size)
Bounds(size) == CGRect(CGFloat(0, 1), CGFloat(0, 1), size.width, size.height)

\* the scale of the main screen, which a drawing context made with scale 0 takes
ScreenScale == 2

\* nothing is clipped; no ring is drawn
NoClip == [on |-> FALSE, rect |-> Bounds(CGSize(CGFloat(0, 1), CGFloat(0, 1)))]

NoRing ==
    [on |-> FALSE, rect |-> Bounds(CGSize(CGFloat(0, 1), CGFloat(0, 1))),
     width |-> CGFloat(0, 1), color |-> "none", path |-> "none", radius |-> CGFloat(0, 1)]

\* a UIImage: its size in points, its scale, the bytes it was decoded from and
\* the rectangle they are drawn in, the ellipse they are clipped to, the ring
\* stroked over them and the rendering mode
UIImage_data(bytes, width, height) ==
    [size |-> CGSize(CGFloat(width, 1), CGFloat(height, 1)), scale |-> 1, bytes |-> bytes,
     rect |-> Bounds(CGSize(CGFloat(width, 1), CGFloat(height, 1))),
     clip |-> NoClip, ring |-> NoRing, mode |-> "automatic"]

\* a UIImage? that is nil
NilImage ==
    [size |-> CGSize(CGFloat(0, 1), CGFloat(0, 1)), scale |-> 0, bytes |-> "nil",
     rect |-> Bounds(CGSize(CGFloat(0, 1), CGFloat(0, 1))),
     clip |-> NoClip, ring |-> NoRing, mode |-> "automatic"]

\* the images explored: a wide one, a tall one and a square one
DecodedImages ==
    {UIImage_data("wide", 40, 20), UIImage_data("tall", 10, 30), UIImage_data("square", 24, 24)}

\* where the rectangle r of an image of the size from lands when the image is
\* drawn in the rectangle to
mapRect(r, from, to) ==
    CGRect(plus(to.x, over(times(r.x, to.width), from.width)),
           plus(to.y, over(times(r.y, to.height), from.height)),
           over(times(r.width, to.width), from.width),
           over(times(r.height, to.height), from.height))

\* UIGraphicsBeginImageContextWithOptions(size, false, 0); image.draw(in: rect);
\* UIGraphicsGetImageFromCurrentImageContext()
drawIn(image, rect, size) ==
    [size |-> size, scale |-> ScreenScale, bytes |-> image.bytes,
     rect |-> mapRect(image.rect, image.size, rect),
     clip |-> IF image.clip.on
              THEN [on |-> TRUE, rect |-> mapRect(image.clip.rect, image.size, rect)]
              ELSE NoClip,
     ring |-> IF image.ring.on
              THEN [image.ring EXCEPT !.rect = mapRect(image.ring.rect, image.size, rect)]
              ELSE NoRing,
     mode |-> "automatic"]

\* the rectangle of newSize centred in targetSize
centred(newSize, targetSize) ==
    CGRect(over(minus(targetSize.width, newSize.width), CGFloat(2, 1)),
           over(minus(targetSize.height, newSize.height), CGFloat(2, 1)),
           newSize.width, newSize.height)

\* ImageUtils.resizeImageAspectFill
resizeImageAspectFill(image, targetSize) ==
    LET size == image.size
        widthRatio == over(targetSize.width, size.width)
        heightRatio == over(targetSize.height, size.height)
        ratio == max(widthRatio, heightRatio)
        newSize == CGSize(times(size.width, ratio), times(size.height, ratio))
    IN drawIn(image, centred(newSize, targetSize), targetSize)

\* ImageUtils.resizeImageToFill
resizeImageToFill(image, targetSize) == drawIn(image, Bounds(targetSize), targetSize)

\* ImageUtils.resizeImageAspectFit
resizeImageAspectFit(image, targetSize) ==
    LET size == image.size
        padding == CGFloat(4, 1)
        availableSize == CGSize(minus(targetSize.width, times(padding, CGFloat(2, 1))),
                                minus(targetSize.height, times(padding, CGFloat(2, 1))))
        widthRatio == over(availableSize.width, size.width)
        heightRatio == over(availableSize.height, size.height)
        ratio == min(widthRatio, heightRatio)
        newSize == CGSize(times(size.width, ratio), times(size.height, ratio))
    IN drawIn(image, centred(newSize, targetSize), targetSize)

\* ImageUtils.makeCircularImage
makeCircularImage(image) ==
    [drawIn(image, Bounds(image.size), image.size)
        EXCEPT !.clip = [on |-> TRUE, rect |-> Bounds(image.size)]]

\* the shape and size strings explored
Shapes == {"circle", "Circle", "square", "hexagon"}

Sizes == {"cover", "Stretch", "fit", "contain"}

\* ImageUtils.applyImageIconStyling
applyImageIconStyling(image, shape, size) ==
    IF image = NilImage THEN NilImage
    ELSE LET targetSize == CGSize(CGFloat(20, 1), CGFloat(20, 1))
             resizedImage ==
                 CASE lowercased(size) = "cover" -> resizeImageAspectFill(image, targetSize)
                   [] lowercased(size) = "stretch" -> resizeImageToFill(image, targetSize)
                   [] lowercased(size) = "fit" -> resizeImageAspectFit(image, targetSize)
                   [] OTHER -> resizeImageAspectFit(image, targetSize)
         IN CASE lowercased(shape) = "circle" -> makeCircularImage(resizedImage)
              [] lowercased(shape) = "square" -> resizedImage
              [] OTHER -> resizedImage

\* the ring stroked by addEnhancedRingToImage over an image of the size size
\* in a context of the size newSize
strokedRing(size, newSize, ringWidth, ringColor, bottomPadding) ==
    [on |-> TRUE,
     rect |-> CGRect(over(ringWidth, CGFloat(2, 1)), over(ringWidth, CGFloat(2, 1)),
                     minus(newSize.width, ringWidth),
                     minus(minus(newSize.height, ringWidth), bottomPadding)),
     width |-> ringWidth, color |-> ringColor,
     path |-> IF size.width = size.height THEN "ellipse" ELSE "roundedRect",
     radius |-> IF size.width = size.height THEN CGFloat(0, 1)
                ELSE times(min(size.width, size.height), CGFloat(1, 10))]

\* addEnhancedRingToImage drawing into a context whose scale grows with the
\* number of images rendered before
addEnhancedRingToImageByHistory(image, ringWidth, ringColor) ==
    [image EXCEPT !.scale = ScreenScale + Len(rendered),
                  !.ring = strokedRing(image.size, image.size, ringWidth, ringColor,
                                       CGFloat(2, 1)),
                  !.mode = "alwaysOriginal"]

\* ImageUtils.addEnhancedRingToImage
addEnhancedRingToImage(image, ringWidth, ringColor) ==
    LET size == image.size
        spacerWidth == ringWidth
        bottomPadding == CGFloat(2, 1)
        totalRingSpace == plus(spacerWidth, ringWidth)
        newSize == CGSize(plus(size.width, times(totalRingSpace, CGFloat(2, 1))),
                          plus(plus(size.height, times(totalRingSpace, CGFloat(2, 1))),
                               bottomPadding))
        imageRect == CGRect(totalRingSpace, totalRingSpace, size.width, size.height)
    IN [drawIn(image, imageRect, newSize)
           EXCEPT !.ring = strokedRing(size, newSize, ringWidth, ringColor, bottomPadding),
                  !.mode = "alwaysOriginal"]

\* an ImageIconRing? of an imageIcon: nil, or its enabled flag and its width?
ImageIconRing(enabled, hasWidth, width) ==
    [present |-> TRUE, enabled |-> enabled, hasWidth |-> hasWidth, width |-> width]

NilRing == [present |-> FALSE, enabled |-> FALSE, hasWidth |-> FALSE, width |-> CGFloat(0, 1)]

\* the rings and the ring colours explored
Rings ==
    {NilRing, ImageIconRing(FALSE, TRUE, CGFloat(3, 1)), ImageIconRing(TRUE, FALSE, CGFloat(0, 1)),
     ImageIconRing(TRUE, TRUE, CGFloat(3, 1))}

RingColors == {"systemBlue", "#ff0000"}

\* TabsBarOverlay.createSelectedImageWithRing and createUnselectedImageWithRing,
\* with the colour each of them reads given as ringColor
createImageWithRing(image, ring, ringColor) ==
    IF ~(ring.present /\ ring.enabled) THEN image
    ELSE LET ringWidth == IF ring.hasWidth THEN ring.width ELSE CGFloat(2, 1)
         IN addEnhancedRingToImage(image, ringWidth, ringColor)

\* the image a tab shows for a loaded image: processImageIcon styles it and the
\* completion of loadImageForItem puts the ring on it
styledImage(image, shape, size, ring, ringColor) ==
    LET processedImage == applyImageIconStyling(image, shape, size)
    IN IF processedImage = NilImage THEN NilImage
       ELSE [createImageWithRing(processedImage, ring, ringColor)
                EXCEPT !.mode = "alwaysOriginal"]

\* the number of images rendered
MaxRenders == 2

\* one image is styled and given its ring
Render ==
    /\ Len(rendered) < MaxRenders
    /\ \E image \in DecodedImages \cup {NilImage}, shape \in Shapes, size \in Sizes,
          ring \in Rings, ringColor \in RingColors :
          rendered' = Append(rendered,
                             [image |-> image, shape |-> shape, size |-> size, ring |-> ring,
                              ringColor |-> ringColor,
                              out |-> styledImage(image, shape, size, ring, ringColor)])
    /\ UNCHANGED <<webVars, nativeVars, overlayVars, iconVars, probe>>

(***************************************************************************)
(* Specifications.                                                         *)
(***************************************************************************)
\* the state after the plugin is loaded: nothing configured, caches empty
Init ==
    /\ now = 0
    /\ cache = [u \in Urls |-> NoEntry]
    /\ loadingPromises = [u \in Urls |-> 0]
    /\ fetches = <<>>
    /\ loadingStates = [t \in TabKeys |-> "none"]
    /\ imageLoadPromises = [t \in TabKeys |-> 0]
    /\ resolutions = <<>>
    /\ configured = {}
    /\ configs = 0
    /\ configureCalls = <<>>
    /\ clears = 0
    /\ ticks = 0
    /\ imageCache = [u \in Urls |-> 0]
    /\ urlLoadingStates = [u \in Urls |-> "absent"]
    /\ tasks = <<>>
    /\ requests = <<>>
    /\ overlayVC = FALSE
    /\ pending = NoBlock
    /\ call = NoCall
    /\ crashed = FALSE
    /\ items = <<>>
    /\ selectedItem = 0
    /\ lastSelectedIndex = 0
    /\ suppressNextSelectionEvent = FALSE
    /\ gesture = NoGesture
    /\ events = <<>>
    /\ barItems = <<>>
    /\ iconLoads = {}
    /\ badgeValues = <<>>
    /\ view = [isHidden |-> FALSE, isUserInteractionEnabled |-> TRUE]
    /\ probe = NoProbe
    /\ rendered = <<>>

WebConfigure == Configure(WebItemLists)

TtlConfigure == Configure(TtlItemLists)

\* the web plugin with the clock standing still
WebNext ==
    \/ WebConfigure
    \/ ConfigureReturn
    \/ FetchComplete
    \/ OwnerResume
    \/ ThenCatch
    \/ Finally
    \/ ClearImageCache

SpecWeb == Init /\ [][WebNext]_vars

\* the web plugin when every fetch is answered and no promise reaction or
\* continuation waits forever in the queue of the event loop
SpecWebLive ==
    /\ SpecWeb
    /\ WF_vars(FetchComplete)
    /\ WF_vars(OwnerResume)
    /\ WF_vars(ThenCatch)
    /\ WF_vars(Finally)
    /\ WF_vars(ConfigureReturn)

\* the web plugin with one tab and the clock running
TtlNext ==
    \/ TtlConfigure
    \/ ConfigureReturn
    \/ FetchComplete
    \/ OwnerResume
    \/ ThenCatch
    \/ Finally
    \/ ClearImageCache
    \/ Tick

SpecWebTtl == Init /\ [][TtlNext]_vars

\* the web plugin with one tab and the clock running past the life of an entry
SweepNext ==
    \/ TtlConfigure
    \/ ConfigureReturn
    \/ FetchComplete
    \/ OwnerResume
    \/ ThenCatch
    \/ Finally
    \/ ClearImageCache
    \/ TickPast

SpecSweep == Init /\ [][SweepNext]_vars

\* loadImage() and processImageIcon() on one icon source of any make
SourcesNext ==
    \/ LoadImage
    \/ ProcessImageIcon

SpecSources == Init /\ [][SourcesNext]_vars

\* the native image loader
SpecNative == Init /\ [][NativeNext]_vars

\* the native plugin and its overlay: configure, select and touches
SpecOverlay == Init /\ [][OverlayNext]_vars

IconsNext ==
    \/ IconConfigure
    \/ ConfigureBlock
    \/ IconTaskComplete
    \/ IconBlock

\* the native plugin and its overlay: configure and the icons of the tabs
SpecIcons == Init /\ [][IconsNext]_vars

BadgesNext ==
    \/ BadgeConfigure
    \/ ConfigureBlock
    \/ PluginSetBadge
    \/ SetBadgeBlock

\* the native plugin and its overlay: configure and the badges of the tabs
SpecBadges == Init /\ [][BadgesNext]_vars

BridgeNext ==
    \/ BridgeConfigure
    \/ ConfigureBlock
    \/ PluginShow
    \/ ShowBlock
    \/ PluginHide
    \/ HideBlock
    \/ PluginSelect
    \/ SelectBlock
    \/ PluginSetBadge
    \/ SetBadgeBlock

\* the native plugin: the five calls of the bridge and their main-queue blocks
SpecBridge == Init /\ [][BridgeNext]_vars

RenderNext == Render

\* the styling of loaded images
SpecRender == Init /\ [][RenderNext]_vars

(***************************************************************************)
(* Claims about the web plugin.                                            *)
(***************************************************************************)
\* the fetches for url u whose GET has not been answered yet
InFlight(u) == {f \in DOMAIN fetches : fetches[f].url = u /\ fetches[f].st = "inflight"}

\* C2: in every reachable state, after any interleaving of resolve requests,
\* fetch completions and clear() calls, at most one network fetch is in
\* flight for any given cache key.
C2_OneInFlightPerKey == \A u \in Urls : Cardinality(InFlight(u)) <= 1

\* C3: a fetch that was in flight when clear() was called leaves no entry in
\* the cache: no cache entry holds the result of such a fetch.
C3_ClearedFetchNotRetained ==
    \A u \in Urls : cache[u].by # 0 => ~fetches[cache[u].by].cleared

\* C4: the outcome of a resolution started by an earlier configure call than
\* the most recent one is discarded: the step that delivers it changes no
\* tab's LoadState.
C4_StaleResultDiscarded ==
    [][\A r \in DOMAIN resolutions :
          (/\ resolutions[r].phase # "settled"
           /\ resolutions'[r].phase = "settled"
           /\ resolutions[r].gen < configs)
          => loadingStates' = loadingStates]_vars

\* C5: every configure call starts, for each tab id it supplies with an
\* iconSource, a resolution of its own (one of the call's generation), also
\* when an earlier resolution for that id is still in flight.
C5_NewResolutionStarted ==
    [][configs' = configs + 1 =>
          \A t \in configured' :
              /\ imageLoadPromises'[t] # 0
              /\ resolutions'[imageLoadPromises'[t]].gen = configs']_vars

\* C11: a configure call whose item list is empty, or in which an item has an
\* empty id, is rejected and nothing of it is applied: it starts no resolution.
C11_InvalidConfigureRejected ==
    \A k \in DOMAIN configureCalls :
        (configureCalls[k].empty \/ configureCalls[k].emptyId) =>
            /\ configureCalls[k].st = "rejected"
            /\ configureCalls[k].awaits = {}

\* C15: a tab whose resolution fails stops nothing: configure is never
\* rejected, every tab it names with an imageIcon has a resolution when the
\* call has walked its items, and a resolution that settles sets the state of
\* its own tab, by its own outcome, and of no other tab.
C15_FailureIsolated ==
    [][/\ \A k \in DOMAIN configureCalls' : configureCalls'[k].st # "rejected"
       /\ configs' = configs + 1 => \A t \in configured' : imageLoadPromises'[t] # 0
       /\ \A r \in DOMAIN resolutions :
             (resolutions[r].phase # "settled" /\ resolutions'[r].phase = "settled") =>
                 /\ loadingStates'[resolutions[r].tab] =
                        IF Outcome(r) = "ok" THEN "loaded" ELSE "error"
                 /\ \A t \in TabKeys \ {resolutions[r].tab} :
                        loadingStates'[t] = loadingStates[t]]_vars

\* a configure call has resolved although the source of tab a failed, and tab b
\* of the same call has loaded
C15_Witness ==
    /\ configs = 1
    /\ configureCalls[1].st = "resolved"
    /\ configured = {"a", "b"}
    /\ loadingStates["a"] = "error"
    /\ loadingStates["b"] = "loaded"

\* whether resolution r is waiting for a fetch that is in flight
AwaitsFetch(r) ==
    /\ resolutions[r].role \in {"owner", "joiner"}
    /\ resolutions[r].phase = "waiting"
    /\ fetches[resolutions[r].fetch].st = "inflight"

\* C16: a configure call returns without awaiting the resolutions it starts: no
\* call is still waiting to return while the fetch of one of its tabs is in
\* flight.
C16_ConfigureDoesNotAwait ==
    \A k \in DOMAIN configureCalls :
        configureCalls[k].st = "pending" =>
            \A r \in configureCalls[k].awaits : ~AwaitsFetch(r)

\* the step in which a request for url u is made: a configure call starts a
\* resolution of a tab whose source is u
Requested(u) ==
    /\ Len(resolutions') = Len(resolutions) + 1
    /\ resolutions'[Len(resolutions')].src = u

\* C18: a request for a key of which no fetch is in flight and a cached entry
\* younger than 24 h exists issues no fetch and is given the cached asset:
\* read from the cache, or handed over by the promise of the answered fetch
\* that wrote the entry, while loadingPromises still holds it.
C18_FreshEntryServed ==
    [][\A u \in Urls :
          (Requested(u) /\ InFlight(u) = {}
              /\ cache[u].by # 0 /\ now - cache[u].ts < CACHE_DURATION) =>
              /\ fetches' = fetches
              /\ LET r == resolutions'[Len(resolutions')]
                 IN \/ r.role = "hit"
                    \/ /\ r.role = "joiner"
                       /\ r.fetch = cache[u].by
                       /\ fetches[r.fetch].st = "ok"]_vars

\* a request for url u is served from an entry a millisecond short of 24 h old
C18_Witness ==
    \E r \in DOMAIN resolutions :
        /\ resolutions[r].role = "hit"
        /\ cache[resolutions[r].src].by # 0
        /\ resolutions[r].at - cache[resolutions[r].src].ts = CACHE_DURATION - 1

\* the failures of an icon source the fallback contract names: of a fetched
\* response, and (below) of the source string itself
FailureKinds == {"mime", "oversized", "network", "undecodable"}

\* whether resolution r failed in one of the five ways
FailedSource(r) ==
    \/ resolutions[r].role = "invalid"
    \/ /\ resolutions[r].role \in {"owner", "joiner"}
       /\ fetches[resolutions[r].fetch].kind \in FailureKinds

\* C12: a tab whose icon source is an invalid string, or is answered with an
\* unsupported MIME type, an oversized payload, a network error or
\* undecodable bytes, ends with the loading state error.
C12_FailedSourceEndsInError ==
    [][\A r \in DOMAIN resolutions :
          (resolutions[r].phase # "settled" /\ resolutions'[r].phase = "settled"
              /\ FailedSource(r))
          => loadingStates'[resolutions[r].tab] = "error"]_vars

\* C27: the loading state of a tab never goes from loaded or error to the
\* other of the two, and never from absent to loaded or error: either way it
\* passes through loading.
C27_LoadStateTransitions ==
    [][\A t \in TabKeys :
          /\ loadingStates[t] = "loaded" => loadingStates'[t] # "error"
          /\ loadingStates[t] = "error" => loadingStates'[t] # "loaded"
          /\ loadingStates[t] = "none" => loadingStates'[t] \in {"none", "loading"}]_vars

\* C39: provided every fetch is answered, every tab that is loading reaches
\* loaded or error, and every resolution, one that joined the fetch of another
\* included, runs to its end, under any interleaving with configure and clear.
C39_EveryResolutionEnds ==
    /\ \A t \in TabIds :
          (loadingStates[t] = "loading") ~> (loadingStates[t] \in {"loaded", "error"})
    /\ \A r \in 1..MaxResolutions :
          (r \in DOMAIN resolutions) ~> (r \in DOMAIN resolutions /\ resolutions[r] = DoneResolution)

\* a tab is loading on a fetch that another resolution started, after a clear
C39_Witness ==
    /\ clears = 1
    /\ \E r \in DOMAIN resolutions :
          /\ resolutions[r].role = "joiner"
          /\ resolutions[r].phase = "waiting"
          /\ fetches[resolutions[r].fetch].st = "inflight"
          /\ loadingStates[resolutions[r].tab] = "loading"

(***************************************************************************)
(* Claims about the classification of icon sources.                        *)
(***************************************************************************)
\* the source begins data:image/<png|jpeg|jpg|svg+xml|webp>;base64, in letters
\* of either case
InlinePrefix(raw) ==
    /\ Len(raw) >= 4
    /\ raw[1] \in {"data:", "DATA:"}
    /\ raw[2] = "image/"
    /\ raw[3] \in {"png", "PNG"}
    /\ raw[4] = ";base64,"

\* the source is an absolute URL of scheme http or https for the URL parser of
\* the platform: the browser's wants a host after the scheme, Foundation's none
AbsoluteHttpUrl(platform, raw) ==
    /\ Len(raw) >= 1
    /\ raw[1] \in {"http:", "https:"}
    /\ platform = "web" => Len(raw) >= 2

C26_PlainHttpRefused ==
    (probe # NoProbe /\ Len(probe.raw) >= 1 /\ probe.raw[1] = "http:") =>
        /\ probe.kind = "invalid"
        /\ probe.key = <<>>

(***************************************************************************)
(* Claims about the native image loader.                                   *)
(***************************************************************************)
\* C1: a request for a key issued while a fetch for that key is in flight
\* issues no fetch of its own, and what it receives is the outcome of the
\* fetch that was in flight.
C1_SingleFetchSharedOutcome ==
    \A q \in DOMAIN requests :
        requests[q].joined # 0 =>
            /\ requests[q].task = 0
            /\ (requests[q].phase = "done" => requests[q].result = tasks[requests[q].joined].st)

\* what the fetch contract lets no successful response be: unanswered, of a
\* status other than success, of a content type outside the allowed set (none
\* declared included), or larger than 5 MiB
Unacceptable == {"network", "http", "mime", "oversized"}

\* C24: a remote fetch succeeds, and its image is cached, only if the response
\* has a success status, a declared content type of the allowed set and a
\* payload of at most 5 MiB.
C24_OnlyValidResponsesSucceed ==
    /\ \A t \in DOMAIN tasks : tasks[t].st = "ok" => tasks[t].kind \notin Unacceptable
    /\ \A u \in Urls : imageCache[u] # 0 => tasks[imageCache[u]].kind \notin Unacceptable

\* the step in which loadImageFromUrl is called for url u
NativeRequested(u) ==
    /\ Len(requests') = Len(requests) + 1
    /\ requests'[Len(requests')].url = u

\* the step in which the data task t ends in a failure
TaskFails(t) == tasks[t].st = "running" /\ tasks'[t].st = "fail"

\* whether a data task for url has failed and every request that waited for it
\* has been given the failure
FailureDelivered(url) ==
    /\ \E t \in DOMAIN tasks : tasks[t].url = url /\ tasks[t].st = "fail"
    /\ \A q \in DOMAIN requests :
          (requests[q].task # 0 /\ tasks[requests[q].task].st = "fail"
             /\ tasks[requests[q].task].url = url) => requests[q].phase = "done"

\* C37: a failed fetch leaves no trace in the cache: every cached entry comes
\* from a response that passed the checks of status, type and size; a failing
\* fetch leaves the cache as it was; and a request for the key made after the
\* failure has been delivered starts a new fetch or is served a valid entry.
C37_FailedFetchLeavesNoTrace ==
    [][/\ \A u \in Urls :
             imageCache'[u] # 0 => /\ tasks'[imageCache'[u]].st = "ok"
                                   /\ tasks'[imageCache'[u]].kind \notin Unacceptable
       /\ \A t \in DOMAIN tasks : TaskFails(t) => imageCache' = imageCache
       /\ \A u \in Urls :
             (NativeRequested(u) /\ FailureDelivered(u)) =>
                 LET q == requests'[Len(requests')]
                 IN \/ q.phase = "fetching" /\ q.task = Len(tasks') /\ Len(tasks') = Len(tasks) + 1
                    \/ q.phase = "retry" /\ RunningTask(u) # 0
                    \/ q.phase = "done" /\ q.result = "ok" /\ imageCache[u] # 0]_vars

\* the step in which the completion handler of a data task runs: URLSession.shared
\* calls it on its delegate queue, which is not the main queue
CompletionHandlerRuns ==
    \E t \in DOMAIN tasks : tasks[t].st = "running" /\ tasks'[t].st # "running"

\* C28: the cache and the in-flight bookkeeping are read and written on the
\* main queue only: the completion handler of a fetch, which runs off it,
\* touches neither.
C28_SharedStateOnMainQueueOnly ==
    [][CompletionHandlerRuns =>
          /\ imageCache' = imageCache
          /\ urlLoadingStates' = urlLoadingStates]_vars

(***************************************************************************)
(* Claims about the native plugin and its overlay.                         *)
(***************************************************************************)
\* the step in which the finger of a recognized long press is lifted
LongPressLifted == gesture.phase = "long" /\ gesture'.phase = "idle" /\ gesture'.kind = "long"

\* C6: once a long press has been recognized, the selection notification of the
\* same gesture emits no tap event and leaves the selection alone, whichever
\* of the gesture-ended callback and the selection notification comes first.
C6_SelectionSuppressedAfterLongPress ==
    [][LongPressLifted =>
          /\ lastSelectedIndex' = lastSelectedIndex
          /\ \A k \in DOMAIN events' : events'[k].kind # "tap"]_vars

\* C7: a press held past the threshold on a tab emits exactly one longPress
\* event for that tab, and leaves the selection and the highlight where they
\* were before the press-down.
C7_LongPressKeepsSelection ==
    [][(LongPressLifted /\ ~gesture.disturbed) =>
          /\ events' = <<[id |-> items[gesture.idx], kind |-> "longPress"]>>
          /\ lastSelectedIndex' = gesture.before
          /\ selectedItem' = gesture.before]_vars

\* C8: a press on a tab released before the threshold selects that tab and
\* emits exactly one tap event for it, and no longPress event.
C8_TapCommitsSelection ==
    [][(gesture.phase = "down" /\ gesture'.phase = "idle" /\ gesture'.kind = "tap") =>
          /\ events' = <<[id |-> items[gesture.idx], kind |-> "tap"]>>
          /\ lastSelectedIndex' = gesture.idx]_vars

\* C9: in every state of the running overlay the stored selected index is nil
\* or within the bounds of the current items.
C9_SelectionWithinItems ==
    ~crashed => (lastSelectedIndex = 0 \/ lastSelectedIndex \in DOMAIN items)

\* tab 2 was tapped, and then a list of a single item was applied
C9_Witness ==
    /\ ~crashed
    /\ gesture.kind = "tap" /\ gesture.idx = 2 /\ gesture.disturbed
    /\ Len(items) = 1
    /\ lastSelectedIndex = 1

\* C10: a configure call whose item list repeats an id is rejected, and
\* nothing of it is applied: no update is scheduled and the overlay goes on.
C10_DuplicateIdRejected ==
    (call.name = "configure" /\ call.dup) =>
        /\ call.rejected /\ ~call.resolved
        /\ pending.kind # "update"
        /\ ~crashed

\* the step in which the main-queue block of configure applies a list
UpdateApplied == pending.kind = "update" /\ pending' = NoBlock /\ ~crashed'

\* C21, as the specification states it: when a list is applied that has not
\* the id of the selected tab, the first tab of the new list becomes the
\* selection, or none if the list is empty.
C21_FallsBackToFirst ==
    [][(UpdateApplied /\ SelectionLost(pending.items)) =>
          /\ lastSelectedIndex' = (IF Len(pending.items) > 0 THEN 1 ELSE 0)
          /\ selectedItem' = lastSelectedIndex']_vars

\* C21, amended: when a list is applied that has not the id of the selected
\* tab, the tab that initialId names becomes the selection, and the first tab
\* of the new list if initialId names none; the list applied is never empty.
C21_FallsBackToInitialOrFirst ==
    [][(UpdateApplied /\ SelectionLost(pending.items)) =>
          /\ Len(pending.items) > 0
          /\ lastSelectedIndex' =
                 (IF \E i \in DOMAIN pending.items : pending.items[i] = pending.id
                  THEN CHOOSE i \in DOMAIN pending.items : pending.items[i] = pending.id
                  ELSE 1)
          /\ selectedItem' = lastSelectedIndex']_vars

\* a list of two tabs without the id of the selected tab was applied, and the
\* first of the two is selected
C21_Witness ==
    /\ ~crashed
    /\ call.name = "configure" /\ pending = NoBlock
    /\ gesture.lost
    /\ Len(items) = 2
    /\ lastSelectedIndex = 1 /\ selectedItem = 1

\* the step in which the touch on a tab is cancelled, before or after its long
\* press was recognized
GestureCancelled ==
    gesture.phase \in {"down", "long"} /\ gesture'.phase = "idle" /\ gesture'.kind = "cancelled"

\* C22: the cancellation of a gesture, at any point of the gesture, leaves the
\* suppression flag clear, emits no event and leaves the selection as it was.
C22_CancellationClearsFlag ==
    [][GestureCancelled =>
          /\ suppressNextSelectionEvent' = FALSE
          /\ events' = events
          /\ lastSelectedIndex' = lastSelectedIndex
          /\ selectedItem' = selectedItem]_vars

BadgeApplied == pending.kind = "badge" /\ pending' = NoBlock /\ overlayVC /\ ~crashed

\* the tab that id names in the current list, or 0
TabOf(id) == IF \E i \in DOMAIN items : items[i] = id THEN idToIndex(items, id) ELSE 0

\* C29: setBadge(id, v) on a current tab leaves the tab without badge when v
\* is a negative number or null and with a dot when v is "dot", and leaves the
\* badges of the other tabs alone; on an id that is not in the list it
\* changes nothing.
C29_SetBadge ==
    [][BadgeApplied =>
          IF TabOf(call.id) # 0
          THEN /\ (call.value.type = "number" /\ call.value.n < 0) =>
                      badgeValues'[TabOf(call.id)].shown = "nil"
               /\ call.value.type = "null" => badgeValues'[TabOf(call.id)].shown = "nil"
               /\ (call.value.type = "string" /\ call.value.s = "dot") =>
                      badgeValues'[TabOf(call.id)].shown = "dot"
               /\ \A i \in DOMAIN badgeValues :
                      i # TabOf(call.id) => badgeValues'[i] = badgeValues[i]
               /\ DOMAIN badgeValues' = DOMAIN badgeValues
          ELSE /\ badgeValues' = badgeValues
               /\ items' = items
               /\ lastSelectedIndex' = lastSelectedIndex
               /\ selectedItem' = selectedItem]_vars

\* the second tab shows a dot, and setBadge with -1 has left the first tab
\* without badge
C29_Witness ==
    /\ ~crashed /\ overlayVC
    /\ call.name = "setBadge" /\ pending = NoBlock
    /\ call.value = JSNumber(0 - 1)
    /\ Len(items) = 2
    /\ TabOf(call.id) = 1
    /\ badgeValues[1].shown = "nil"
    /\ badgeValues[2].shown = "dot"

\* the step in which the main-queue block of select runs on the overlay
SelectApplied ==
    pending.kind = "select" /\ pending' = NoBlock /\ overlayVC /\ ~crashed

\* C19: select(id) with the id of a current tab makes that tab the selection
\* and the highlighted tab and emits no event; no step of a configure or a
\* select call emits an event.
C19_SelectSetsSelectionSilently ==
    [][/\ (SelectApplied /\ idToIndex(items, pending.id) # 0) =>
             /\ lastSelectedIndex' = idToIndex(items, pending.id)
             /\ selectedItem' = idToIndex(items, pending.id)
       /\ (pending' # pending \/ call' # call) => events' = events]_vars

\* tab gesture.idx was tapped, and then select moved the selection to another tab
C19_Witness ==
    /\ ~crashed
    /\ call.name = "select" /\ pending = NoBlock
    /\ lastSelectedIndex # 0
    /\ lastSelectedIndex = idToIndex(items, call.id)
    /\ selectedItem = lastSelectedIndex
    /\ gesture.phase = "idle" /\ gesture.kind = "tap" /\ gesture.disturbed
    /\ gesture.idx # lastSelectedIndex
    /\ events = <<[id |-> items[gesture.idx], kind |-> "tap"]>>

\* C20: select(id) with an id that is not in the current list changes nothing:
\* the selection, the highlight and the list stay and no event is emitted.
C20_SelectUnknownIsNoOp ==
    [][(SelectApplied /\ idToIndex(items, pending.id) = 0) =>
          /\ lastSelectedIndex' = lastSelectedIndex
          /\ selectedItem' = selectedItem
          /\ items' = items
          /\ barItems' = barItems
          /\ events' = events]_vars

\* select ran with an id that names none of the two tabs, the second of which
\* stays selected
C20_Witness ==
    /\ ~crashed /\ overlayVC
    /\ call.name = "select" /\ pending = NoBlock
    /\ Len(items) = 2
    /\ idToIndex(items, call.id) = 0
    /\ lastSelectedIndex = 2 /\ selectedItem = 2

\* C31: a press on a tab is classified once: from its press-down to the return
\* to idle at most one event is emitted for it, a tap or a longPress and never
\* both.
C31_ClassifiedOnce ==
    /\ Len(events) <= 1
    /\ ~(\E j, k \in DOMAIN events : events[j].kind = "tap" /\ events[k].kind = "longPress")

\* C32: whenever no gesture is in progress the tab the bar highlights is the
\* tab of the stored selected index: after every completed configure, select,
\* tap, long press and cancelled gesture the two are equal.
C32_HighlightIsStoredSelection ==
    (~crashed /\ overlayVC /\ gesture.phase = "idle") => selectedItem = lastSelectedIndex

\* a tap on a tab other than the selected one was swallowed, and the highlight
\* is back on the selected tab
C32_Witness ==
    /\ ~crashed
    /\ gesture.phase = "idle" /\ gesture.kind = "tap" /\ ~gesture.disturbed
    /\ events = <<>>
    /\ gesture.idx # lastSelectedIndex
    /\ lastSelectedIndex \in DOMAIN items
    /\ selectedItem = lastSelectedIndex

\* C33: whenever no gesture is in progress the suppression flag is clear,
\* after any sequence of gestures and reconfigurations, a configure applied
\* while a long press is held included.
C33_FlagClearWhenIdle ==
    (~crashed /\ gesture.phase = "idle") => ~suppressNextSelectionEvent

\* C34: a reconfiguration whose initialId names no tab of the new list keeps
\* the selection on the tab with the previously selected id, at its new index,
\* when that id is still in the list, and selects the first tab only when it
\* is gone.
C34_ReconfigureKeepsSelection ==
    [][(UpdateApplied /\ idToIndex(pending.items, pending.id) = 0
          /\ lastSelectedIndex \in DOMAIN items) =>
          /\ lastSelectedIndex' =
                 (IF idToIndex(pending.items, items[lastSelectedIndex]) # 0
                  THEN idToIndex(pending.items, items[lastSelectedIndex])
                  ELSE 1)
          /\ selectedItem' = lastSelectedIndex']_vars

\* C35: every call of the bridge is completed once, resolved or rejected and
\* never both: a call made when there is no overlay yet is rejected without
\* having been resolved.
C35_CompletedOnce == ~(call.resolved /\ call.rejected)

\* C36: whenever the overlay is visible it accepts touches, after any sequence
\* of configure, show and hide calls.
C36_VisibleIsInteractive ==
    (overlayVC /\ ~crashed /\ ~view.isHidden) => view.isUserInteractionEnabled

(***************************************************************************)
(* Claims about the icons of the native tab bar.                           *)
(***************************************************************************)
\* whether the icon load of bar item i is still under way
Loading(i) == \E l \in iconLoads : l.idx = i

\* what the fallback chain shows for a tab whose icon source failed or is
\* absent: the symbol, else the bundled image, else the empty placeholder
FallbackIcon(b) ==
    IF b.sys = GoodSymbol THEN "symbol"
    ELSE IF b.img # NoImage THEN "bundled"
    ELSE "empty"

\* C13: when a tab's icon source has failed or is absent the tab shows its
\* symbol; when the symbol cannot be rendered it shows its bundled image, and
\* the empty placeholder only when it has none.
C13_FallbackChain ==
    ~crashed =>
        \A i \in DOMAIN barItems :
            (~Loading(i) /\ barItems[i].image # "imageIcon") =>
                barItems[i].image = FallbackIcon(barItems[i])

\* C14: while the icon source of a tab is being resolved the tab shows its
\* fallback icon: it is never without an icon.
C14_FallbackWhileLoading ==
    ~crashed =>
        \A i \in DOMAIN barItems :
            Loading(i) => barItems[i].image = FallbackIcon(barItems[i])

(***************************************************************************)
(* Claims about the expiry of cached images.                               *)
(***************************************************************************)
\* C17: a request for a key whose cached entry is 24 h old or older, made when
\* no fetch of the key is in flight, issues one fetch and is not served the
\* expired entry.
C17_ExpiredEntryRefetched ==
    [][\A u \in Urls :
          (NativeRequested(u) /\ RunningTask(u) = 0
              /\ imageCache[u] # 0 /\ now - tasks[imageCache[u]].at >= CACHE_DURATION) =>
              /\ Len(tasks') = Len(tasks) + 1
              /\ requests'[Len(requests')].phase = "fetching"]_vars

\* the step in which fetch f stores its entry in the cache
Stores(f) == fetches[f].st = "inflight" /\ fetches'[f].st = "ok"

RenderArgs(r) == <<r.image, r.shape, r.size, r.ring, r.ringColor>>

====
